---- MODULE Spec2Model ----
(***************************************************************************)
(* Model of CommonTokenConfig (pkg/config/common.go): the key registry     *)
(* (tokenKeys), the committed family tag (tokenType), the configuration    *)
(* origin (tokenOrigin) and the methods that read and write them.          *)
(***************************************************************************)
EXTENDS Integers, Sequences, FiniteSets, TLC

(* ---------------------------------------------------------------------- *)
(* Bounds                                                                  *)
(* ---------------------------------------------------------------------- *)
\* number of distinct key objects of each Go type
MaxKeyId == 1
\* longest list of (kid, key) pairs the resolver pipeline hands to the registry
MaxLoad == 2

(* ---------------------------------------------------------------------- *)
(* Values                                                                  *)
(* ---------------------------------------------------------------------- *)
defaultKeyID == "0"

\* key identifiers passed by callers: the empty kid, the default kid, two others
Kids == {"", defaultKeyID, "k1", "k2"}

KeyIds == 1..MaxKeyId

\* interface{} values, tagged with their dynamic Go type
StringValue(i) == [kind |-> "string", id |-> i]
RSAPrivateKey(i) == [kind |-> "*rsa.PrivateKey", id |-> i]
RSAPublicKey(i) == [kind |-> "*rsa.PublicKey", id |-> i]
ECDSAPrivateKey(i) == [kind |-> "*ecdsa.PrivateKey", id |-> i]
ECDSAPublicKey(i) == [kind |-> "*ecdsa.PublicKey", id |-> i]
\* a value of any other dynamic type (an int, a []byte, ...)
OtherValue == [kind |-> "other", id |-> 0]
\* the nil interface value returned next to an error
Nil == [kind |-> "nil", id |-> 0]

SupportedValues ==
    {StringValue(i) : i \in KeyIds} \cup {RSAPrivateKey(i) : i \in KeyIds}
      \cup {RSAPublicKey(i) : i \in KeyIds} \cup {ECDSAPrivateKey(i) : i \in KeyIds}
      \cup {ECDSAPublicKey(i) : i \in KeyIds}

KeyValues == SupportedValues \cup {OtherValue}

\* &privkey.PublicKey : the public half embedded in a private key
PublicKey(privkey) ==
    [kind |-> IF privkey.kind = "*rsa.PrivateKey" THEN "*rsa.PublicKey" ELSE "*ecdsa.PublicKey",
     id |-> privkey.id]

IsPrivateKey(v) == v.kind \in {"*rsa.PrivateKey", "*ecdsa.PrivateKey"}
IsPublicKey(v) == v.kind \in {"*rsa.PublicKey", "*ecdsa.PublicKey"}

\* names given to SetOrigin
OriginNames == {"config", "env", "empty", "", "unknown", "bogus"}

\* values of the string fields of the sign-method configurations
StringFieldValues == {"", "x"}
\* values of their map[string]string fields: nil, empty but not nil, filled
NilStringMap == [isNil |-> TRUE, len |-> 0]
MapFieldValues == {NilStringMap, [isNil |-> FALSE, len |-> 0], [isNil |-> FALSE, len |-> 1]}

RSAStringFields == {"TokenRSADir", "TokenRSAFile", "TokenRSAKey"}
RSAMapFields == {"TokenRSAFiles", "TokenRSAKeys"}
ECDSAStringFields == {"TokenECDSADir", "TokenECDSAFile", "TokenECDSAKey"}
ECDSAMapFields == {"TokenECDSAFiles", "TokenECDSAKeys"}

\* the zero values of the two embedded structs
ZeroRSASignMethodConfig ==
    [TokenRSADir |-> "", TokenRSAFiles |-> NilStringMap, TokenRSAKeys |-> NilStringMap,
     TokenRSAFile |-> "", TokenRSAKey |-> ""]
ZeroECDSASignMethodConfig ==
    [TokenECDSADir |-> "", TokenECDSAFiles |-> NilStringMap,
     TokenECDSAKeys |-> NilStringMap, TokenECDSAFile |-> "", TokenECDSAKey |-> ""]

\* map[string]interface{} helpers
EmptyMap == [x \in {} |-> Nil]
Put(m, k, v) == [x \in (DOMAIN m) \cup {k} |-> IF x = k THEN v ELSE m[x]]

(* ---------------------------------------------------------------------- *)
(* State                                                                   *)
(* ---------------------------------------------------------------------- *)
VARIABLES tokenOrigin, tokenType, tokenKeys, tokenKeysNil, ret,
          RSASignMethodConfig, ECDSASignMethodConfig

vars == <<tokenOrigin, tokenType, tokenKeys, tokenKeysNil, ret,
          RSASignMethodConfig, ECDSASignMethodConfig>>

\* the fields of the receiver, without the result of the last call
fields == <<tokenOrigin, tokenType, tokenKeys, tokenKeysNil,
            RSASignMethodConfig, ECDSASignMethodConfig>>

\* the receiver *CommonTokenConfig as one value
Self ==
    [tokenOrigin |-> tokenOrigin, tokenType |-> tokenType,
     tokenKeys |-> tokenKeys, tokenKeysNil |-> tokenKeysNil,
     RSASignMethodConfig |-> RSASignMethodConfig,
     ECDSASignMethodConfig |-> ECDSASignMethodConfig]

\* what the last call returned: its error, and GetPrivateKey's (key, kid)
Ret(op, err, key, kid) == [op |-> op, err |-> err, key |-> key, kid |-> kid]
\* the result of a call that returns a bool
RetBool(op, ok) == [op |-> op, err |-> "nil", key |-> Nil, kid |-> "", ok |-> ok]

(* ---------------------------------------------------------------------- *)
(* Methods, as functions of the receiver                                   *)
(* ---------------------------------------------------------------------- *)
\* getKeyType with the *ecdsa.PublicKey case returning the RSA family
getKeyTypeSlip(k) ==
    CASE k.kind = "string" -> [kt |-> "secret", err |-> "nil"]
      [] k.kind = "*rsa.PrivateKey" -> [kt |-> "rsa", err |-> "nil"]
      [] k.kind = "*rsa.PublicKey" -> [kt |-> "rsa", err |-> "nil"]
      [] k.kind = "*ecdsa.PrivateKey" -> [kt |-> "ecdsa", err |-> "nil"]
      [] k.kind = "*ecdsa.PublicKey" -> [kt |-> "rsa", err |-> "nil"]
      [] OTHER -> [kt |-> "", err |-> "ErrUnsupportedConfigKeyType"]

\* HasRSAKeys without the TokenRSAKeys test
HasRSAKeysNoKeysMap(c) ==
    \/ c.RSASignMethodConfig.TokenRSADir # ""
    \/ c.RSASignMethodConfig.TokenRSAFile # ""
    \/ c.RSASignMethodConfig.TokenRSAKey # ""
    \/ ~c.RSASignMethodConfig.TokenRSAFiles.isNil

HasRSAKeys(c) ==
    \/ c.RSASignMethodConfig.TokenRSADir # ""
    \/ c.RSASignMethodConfig.TokenRSAFile # ""
    \/ c.RSASignMethodConfig.TokenRSAKey # ""
    \/ ~c.RSASignMethodConfig.TokenRSAFiles.isNil
    \/ ~c.RSASignMethodConfig.TokenRSAKeys.isNil

HasECDSAKeys(c) ==
    \/ c.ECDSASignMethodConfig.TokenECDSADir # ""
    \/ c.ECDSASignMethodConfig.TokenECDSAFile # ""
    \/ c.ECDSASignMethodConfig.TokenECDSAKey # ""
    \/ ~c.ECDSASignMethodConfig.TokenECDSAFiles.isNil
    \/ ~c.ECDSASignMethodConfig.TokenECDSAKeys.isNil

getKeyType(k) ==
    CASE k.kind = "string" -> [kt |-> "secret", err |-> "nil"]
      [] k.kind = "*rsa.PrivateKey" -> [kt |-> "rsa", err |-> "nil"]
      [] k.kind = "*rsa.PublicKey" -> [kt |-> "rsa", err |-> "nil"]
      [] k.kind = "*ecdsa.PrivateKey" -> [kt |-> "ecdsa", err |-> "nil"]
      [] k.kind = "*ecdsa.PublicKey" -> [kt |-> "ecdsa", err |-> "nil"]
      [] OTHER -> [kt |-> "", err |-> "ErrUnsupportedConfigKeyType"]

GetOrigin(c) == IF c.tokenOrigin = "" THEN "unknown" ELSE c.tokenOrigin

\* SetOrigin assigning the field before the name is validated
SetOriginAssignFirst(c, name) ==
    LET c1 == [c EXCEPT !.tokenOrigin = name]
    IN CASE name \in {"config", "env"} -> [c |-> c1, err |-> "nil"]
         [] name = "empty" -> [c |-> c1, err |-> "ErrEmptyTokenConfigOrigin"]
         [] OTHER -> [c |-> c1, err |-> "ErrUnsupportedTokenConfigOrigin"]

\* SetOrigin keeping the origin of the first successful call
SetOriginFirstWins(c, name) ==
    CASE name \in {"config", "env"} ->
           [c |-> IF c.tokenOrigin = "" THEN [c EXCEPT !.tokenOrigin = name] ELSE c,
            err |-> "nil"]
      [] name = "empty" -> [c |-> c, err |-> "ErrEmptyTokenConfigOrigin"]
      [] OTHER -> [c |-> c, err |-> "ErrUnsupportedTokenConfigOrigin"]

SetOrigin(c, name) ==
    CASE name \in {"config", "env"} -> [c |-> [c EXCEPT !.tokenOrigin = name], err |-> "nil"]
      [] name = "empty" -> [c |-> c, err |-> "ErrEmptyTokenConfigOrigin"]
      [] OTHER -> [c |-> c, err |-> "ErrUnsupportedTokenConfigOrigin"]

GetKeys(c) == <<c.tokenType, c.tokenKeys>>

\* AddKey without the family check of lines 303-305
AddKeyNoMixedCheck(c, k, pk) ==
    LET c1 == [c EXCEPT !.tokenKeysNil = FALSE]
        r == getKeyType(pk)
    IN IF r.err # "nil" THEN [c |-> c1, err |-> r.err]
       ELSE LET c2 == IF c1.tokenType = "" THEN [c1 EXCEPT !.tokenType = r.kt] ELSE c1
            IN [c |-> [c2 EXCEPT !.tokenKeys = Put(c2.tokenKeys, k, pk)], err |-> "nil"]

\* AddKey assigning tokenType on every call instead of only when it is empty
AddKeyRetag(c, k, pk) ==
    LET c1 == [c EXCEPT !.tokenKeysNil = FALSE]
        r == getKeyType(pk)
    IN IF r.err # "nil" THEN [c |-> c1, err |-> r.err]
       ELSE LET c2 == [c1 EXCEPT !.tokenType = r.kt]
            IN IF c2.tokenType # r.kt
               THEN [c |-> c2, err |-> "ErrMixedConfigKeyType"]
               ELSE [c |-> [c2 EXCEPT !.tokenKeys = Put(c2.tokenKeys, k, pk)], err |-> "nil"]

\* AddKey also establishing the default kid, as AddPublicKey does
AddKeyAlsoDefault(c, k, pk) ==
    LET c1 == [c EXCEPT !.tokenKeysNil = FALSE]
        r == getKeyType(pk)
    IN IF r.err # "nil" THEN [c |-> c1, err |-> r.err]
       ELSE LET c2 == IF c1.tokenType = "" THEN [c1 EXCEPT !.tokenType = r.kt] ELSE c1
                m1 == Put(c2.tokenKeys, k, pk)
                m2 == IF defaultKeyID \in DOMAIN m1 THEN m1 ELSE Put(m1, defaultKeyID, pk)
            IN IF c2.tokenType # r.kt
               THEN [c |-> c2, err |-> "ErrMixedConfigKeyType"]
               ELSE [c |-> [c2 EXCEPT !.tokenKeys = m2], err |-> "nil"]

\* AddKey writing the map before the family check
AddKeyStoreThenCheck(c, k, pk) ==
    LET c1 == [c EXCEPT !.tokenKeysNil = FALSE]
        r == getKeyType(pk)
    IN IF r.err # "nil" THEN [c |-> c1, err |-> r.err]
       ELSE LET c2 == IF c1.tokenType = "" THEN [c1 EXCEPT !.tokenType = r.kt] ELSE c1
                c3 == [c2 EXCEPT !.tokenKeys = Put(c2.tokenKeys, k, pk)]
            IN IF c2.tokenType # r.kt
               THEN [c |-> c3, err |-> "ErrMixedConfigKeyType"]
               ELSE [c |-> c3, err |-> "nil"]

AddKey(c, k, pk) ==
    LET c1 == [c EXCEPT !.tokenKeysNil = FALSE]
        r == getKeyType(pk)
    IN IF r.err # "nil" THEN [c |-> c1, err |-> r.err]
       ELSE LET c2 == IF c1.tokenType = "" THEN [c1 EXCEPT !.tokenType = r.kt] ELSE c1
            IN IF c2.tokenType # r.kt
               THEN [c |-> c2, err |-> "ErrMixedConfigKeyType"]
               ELSE [c |-> [c2 EXCEPT !.tokenKeys = Put(c2.tokenKeys, k, pk)], err |-> "nil"]

\* AddPublicKey writing the default kid on every private-key insert
AddPublicKeyOverwriteDefault(c, keyID, keyMaterial) ==
    IF keyID = "" THEN [c |-> c, err |-> "ErrKeyIDNotFound"]
    ELSE LET c1 == [c EXCEPT !.tokenKeysNil = FALSE]
         IN CASE IsPrivateKey(keyMaterial) ->
                   LET m1 == Put(c1.tokenKeys, keyID, PublicKey(keyMaterial))
                       m2 == Put(m1, defaultKeyID, PublicKey(keyMaterial))
                   IN [c |-> [c1 EXCEPT !.tokenKeys = m2], err |-> "nil"]
              [] IsPublicKey(keyMaterial) ->
                   [c |-> [c1 EXCEPT !.tokenKeys = Put(c1.tokenKeys, keyID, keyMaterial)],
                    err |-> "nil"]
              [] OTHER -> [c |-> c1, err |-> "ErrUnsupportedKeyType"]

\* AddPublicKey storing the private key itself at keyID
AddPublicKeyKeepPrivate(c, keyID, keyMaterial) ==
    IF keyID = "" THEN [c |-> c, err |-> "ErrKeyIDNotFound"]
    ELSE LET c1 == [c EXCEPT !.tokenKeysNil = FALSE]
         IN CASE IsPrivateKey(keyMaterial) ->
                   LET m1 == Put(c1.tokenKeys, keyID, keyMaterial)
                       m2 == IF defaultKeyID \in DOMAIN m1 THEN m1
                             ELSE Put(m1, defaultKeyID, PublicKey(keyMaterial))
                   IN [c |-> [c1 EXCEPT !.tokenKeys = m2], err |-> "nil"]
              [] IsPublicKey(keyMaterial) ->
                   [c |-> [c1 EXCEPT !.tokenKeys = Put(c1.tokenKeys, keyID, keyMaterial)],
                    err |-> "nil"]
              [] OTHER -> [c |-> c1, err |-> "ErrUnsupportedKeyType"]

AddPublicKey(c, keyID, keyMaterial) ==
    IF keyID = "" THEN [c |-> c, err |-> "ErrKeyIDNotFound"]
    ELSE LET c1 == [c EXCEPT !.tokenKeysNil = FALSE]
         IN CASE IsPrivateKey(keyMaterial) ->
                   \* the exists test runs after the write at keyID
                   LET m1 == Put(c1.tokenKeys, keyID, PublicKey(keyMaterial))
                       m2 == IF defaultKeyID \in DOMAIN m1 THEN m1
                             ELSE Put(m1, defaultKeyID, PublicKey(keyMaterial))
                   IN [c |-> [c1 EXCEPT !.tokenKeys = m2], err |-> "nil"]
              [] IsPublicKey(keyMaterial) ->
                   [c |-> [c1 EXCEPT !.tokenKeys = Put(c1.tokenKeys, keyID, keyMaterial)],
                    err |-> "nil"]
              [] OTHER -> [c |-> c1, err |-> "ErrUnsupportedKeyType"]

NotFound(c) ==
    IF c.tokenType = "ecdsa" THEN "ErrECDSAKeysNotFound" ELSE "ErrRSAKeysNotFound"

\* GetPrivateKey without the `keyID == defaultKeyID` skip
GetPrivateKeyNoSkip(c) ==
    IF c.tokenKeysNil THEN {Ret("GetPrivateKey", "ErrRSAKeysNotFound", Nil, "")}
    ELSE LET found == {keyID \in DOMAIN c.tokenKeys : IsPrivateKey(c.tokenKeys[keyID])}
         IN IF found # {}
            THEN {Ret("GetPrivateKey", "nil", c.tokenKeys[keyID], keyID) : keyID \in found}
            ELSE {Ret("GetPrivateKey", NotFound(c), Nil, "")}

\* the set of results the call can return: the range over the map visits the
\* entries in an unspecified order and returns at the first match
GetPrivateKey(c) ==
    IF c.tokenKeysNil THEN {Ret("GetPrivateKey", "ErrRSAKeysNotFound", Nil, "")}
    ELSE LET found == {keyID \in DOMAIN c.tokenKeys :
                         keyID # defaultKeyID /\ IsPrivateKey(c.tokenKeys[keyID])}
         IN IF found # {}
            THEN {Ret("GetPrivateKey", "nil", c.tokenKeys[keyID], keyID) : keyID \in found}
            ELSE {Ret("GetPrivateKey", NotFound(c), Nil, "")}

\* what the resolvers can produce from the configured sources, the files and
\* the environment: lists of (kid, key) pairs with valid kids and parsed keys
ResolvedPairs == (Kids \ {""}) \X SupportedValues
LoadInputs == UNION {[1..n -> ResolvedPairs] : n \in 0..MaxLoad}

\* every resolved (kid, key) pair is inserted in order, the first failing
\* insert ends the load with its error
RECURSIVE insertAll(_, _)
insertAll(c, pairs) ==
    IF pairs = << >> THEN [c |-> c, err |-> "nil"]
    ELSE LET r == AddKey(c, Head(pairs)[1], Head(pairs)[2])
         IN IF r.err # "nil" THEN r ELSE insertAll(r.c, Tail(pairs))

\* the resolver pipeline: the outcomes it can have, one per list of pairs the
\* sources resolve to
load(c) == {insertAll(c, pairs) : pairs \in LoadInputs}

\* LoadKeys running the pipeline whatever the registry holds
LoadKeysAlways(c) == load(c)

\* the set of outcomes of the call
LoadKeys(c) ==
    IF Cardinality(DOMAIN c.tokenKeys) > 0 THEN {[c |-> c, err |-> "nil"]}
    ELSE load(c)

(* ---------------------------------------------------------------------- *)
(* Specification                                                           *)
(* ---------------------------------------------------------------------- *)
Init ==
    /\ tokenOrigin = ""
    /\ tokenType = ""
    /\ tokenKeys = EmptyMap
    /\ tokenKeysNil = TRUE
    /\ ret = Ret("NewCommonTokenConfig", "nil", Nil, "")
    /\ RSASignMethodConfig = ZeroRSASignMethodConfig
    /\ ECDSASignMethodConfig = ZeroECDSASignMethodConfig

Assign(c) ==
    /\ tokenKeys' = c.tokenKeys
    /\ tokenType' = c.tokenType
    /\ tokenOrigin' = c.tokenOrigin
    /\ tokenKeysNil' = c.tokenKeysNil
    /\ RSASignMethodConfig' = c.RSASignMethodConfig
    /\ ECDSASignMethodConfig' = c.ECDSASignMethodConfig

CallSetOrigin(name) ==
    LET r == SetOrigin(Self, name)
    IN /\ Assign(r.c)
       /\ ret' = Ret("SetOrigin", r.err, Nil, "")

CallAddKey(k, pk) ==
    LET r == AddKey(Self, k, pk)
    IN /\ Assign(r.c)
       /\ ret' = Ret("AddKey", r.err, Nil, "")

CallAddPublicKey(keyID, keyMaterial) ==
    LET r == AddPublicKey(Self, keyID, keyMaterial)
    IN /\ Assign(r.c)
       /\ ret' = Ret("AddPublicKey", r.err, Nil, "")

CallGetPrivateKey ==
    /\ ret' \in GetPrivateKey(Self)
    /\ UNCHANGED fields

CallLoadKeys ==
    \E r \in LoadKeys(Self) :
        /\ Assign(r.c)
        /\ ret' = Ret("LoadKeys", r.err, Nil, "")

Next ==
    \/ \E name \in OriginNames : CallSetOrigin(name)
    \/ \E k \in Kids, pk \in KeyValues : CallAddKey(k, pk)
    \/ \E keyID \in Kids, keyMaterial \in KeyValues : CallAddPublicKey(keyID, keyMaterial)
    \/ CallGetPrivateKey
    \/ CallLoadKeys

Spec == Init /\ [][Next]_vars

\* a registry populated through AddPublicKey only
NextPublicOnly ==
    \/ \E name \in OriginNames : CallSetOrigin(name)
    \/ \E keyID \in Kids, keyMaterial \in KeyValues : CallAddPublicKey(keyID, keyMaterial)
    \/ CallGetPrivateKey

SpecPublicOnly == Init /\ [][NextPublicOnly]_vars

\* configuration loading writes the exported fields of the embedded structs
SetRSAField(f, v) ==
    /\ RSASignMethodConfig' = [RSASignMethodConfig EXCEPT ![f] = v]
    /\ ret' = Ret("SetRSAField", "nil", Nil, "")
    /\ UNCHANGED <<tokenOrigin, tokenType, tokenKeys, tokenKeysNil, ECDSASignMethodConfig>>

SetECDSAField(f, v) ==
    /\ ECDSASignMethodConfig' = [ECDSASignMethodConfig EXCEPT ![f] = v]
    /\ ret' = Ret("SetECDSAField", "nil", Nil, "")
    /\ UNCHANGED <<tokenOrigin, tokenType, tokenKeys, tokenKeysNil, RSASignMethodConfig>>

CallHasRSAKeys ==
    /\ ret' = RetBool("HasRSAKeys", HasRSAKeys(Self))
    /\ UNCHANGED fields

CallHasECDSAKeys ==
    /\ ret' = RetBool("HasECDSAKeys", HasECDSAKeys(Self))
    /\ UNCHANGED fields

NextConfig ==
    \/ \E f \in RSAStringFields, v \in StringFieldValues : SetRSAField(f, v)
    \/ \E f \in RSAMapFields, v \in MapFieldValues : SetRSAField(f, v)
    \/ \E f \in ECDSAStringFields, v \in StringFieldValues : SetECDSAField(f, v)
    \/ \E f \in ECDSAMapFields, v \in MapFieldValues : SetECDSAField(f, v)
    \/ CallHasRSAKeys
    \/ CallHasECDSAKeys

SpecConfig == Init /\ [][NextConfig]_vars

TypeOK ==
    /\ tokenOrigin \in {"", "config", "env"}
    /\ tokenType \in {"", "secret", "rsa", "ecdsa"}
    /\ DOMAIN tokenKeys \subseteq Kids
    /\ \A k \in DOMAIN tokenKeys : tokenKeys[k] \in SupportedValues
    /\ tokenKeysNil \in BOOLEAN

(* ---------------------------------------------------------------------- *)
(* Properties                                                              *)
(* ---------------------------------------------------------------------- *)
Family(v) == getKeyType(v).kt

Populated == DOMAIN tokenKeys # {}

\* what GetOrigin and GetKeys return before and after a step
Origin == GetOrigin([tokenOrigin |-> tokenOrigin])
Keys == GetKeys([tokenType |-> tokenType, tokenKeys |-> tokenKeys])

\* the registry holds a private key at a kid other than the default kid
HasSigningKey ==
    \E k \in DOMAIN tokenKeys : k # defaultKeyID /\ IsPrivateKey(tokenKeys[k])

\* C1: all values stored in the registry belong to one and the same family,
\* whatever sequence of AddKey and AddPublicKey calls populated it.
C1_SingleFamily ==
    \A a \in DOMAIN tokenKeys, b \in DOMAIN tokenKeys :
        Family(tokenKeys[a]) = Family(tokenKeys[b])

\* C2: in every reachable state, AddKey of a value whose family differs from
\* the committed one fails with ErrMixedConfigKeyType and leaves the registry
\* and the tag as they were; any other AddKey of a key value succeeds, stores
\* the value and commits its family. The committed family never changes, so
\* this holds from the first successful insert on, in either order.
C2_MixedFamilyRejected ==
    /\ [](\A k \in Kids, pk \in SupportedValues :
            LET r == AddKey(Self, k, pk)
            IN IF tokenType # "" /\ Family(pk) # tokenType
               THEN /\ r.err = "ErrMixedConfigKeyType"
                    /\ r.c.tokenKeys = tokenKeys
                    /\ r.c.tokenType = tokenType
               ELSE /\ r.err = "nil"
                    /\ r.c.tokenType = Family(pk)
                    /\ k \in DOMAIN r.c.tokenKeys /\ r.c.tokenKeys[k] = pk)
    /\ [][tokenType # "" => tokenType' = tokenType]_vars

C2_Witness == ret.op = "AddKey" /\ ret.err = "ErrMixedConfigKeyType"

C4_TagIsFamilyOfEntries ==
    LET tag == GetKeys(Self)[1]
        keys == GetKeys(Self)[2]
    IN DOMAIN keys # {} =>
         tag # "" /\ \A k \in DOMAIN keys : Family(keys[k]) = tag

\* C5: the registry never contains an entry whose kid is the empty string.
C5_NoEmptyKid == "" \notin DOMAIN tokenKeys

\* C6 (as stated): inserting an RSA private key at a kid other than "0" into
\* an empty registry leaves exactly the private key at that kid and its
\* derived public key at "0".
C6_PrivateAndDefaultPublic ==
    [][(~Populated /\ ret'.op \in {"AddKey", "AddPublicKey"}) =>
         \A k \in Kids \ {"", defaultKeyID}, i \in KeyIds :
            (CallAddKey(k, RSAPrivateKey(i)) \/ CallAddPublicKey(k, RSAPrivateKey(i)))
              => tokenKeys' = (k :> RSAPrivateKey(i)) @@ (defaultKeyID :> RSAPublicKey(i))]_vars

\* C6 (amended): on an empty registry AddPublicKey of an RSA private key at a
\* kid other than "0" leaves exactly two entries, that kid and "0", both
\* holding the derived public key; AddKey of it leaves exactly one entry, the
\* private key at that kid.
C6_PublicAtKidAndDefault ==
    [][(~Populated /\ ret'.op \in {"AddKey", "AddPublicKey"}) =>
         \A k \in Kids \ {"", defaultKeyID}, i \in KeyIds :
            /\ CallAddPublicKey(k, RSAPrivateKey(i)) =>
                 /\ ret'.err = "nil"
                 /\ tokenKeys'
                      = (k :> RSAPublicKey(i)) @@ (defaultKeyID :> RSAPublicKey(i))
            /\ CallAddKey(k, RSAPrivateKey(i)) =>
                 /\ ret'.err = "nil"
                 /\ tokenKeys' = (k :> RSAPrivateKey(i))]_vars

C6_Witness ==
    /\ ret.op = "AddPublicKey" /\ ret.err = "nil"
    /\ tokenType = ""
    /\ DOMAIN tokenKeys = {"k1", defaultKeyID}
    /\ tokenKeys["k1"] = RSAPublicKey(1) /\ tokenKeys[defaultKeyID] = RSAPublicKey(1)

\* C7: AddPublicKey of a private key stores the derived public key at "0"
\* when "0" is absent, and no insert at another kid changes an existing
\* entry at "0".
C7_DefaultKidFirstWriter ==
    \A k \in Kids, pk \in KeyValues :
        LET a == AddPublicKey(Self, k, pk)
            b == AddKey(Self, k, pk)
        IN /\ (IsPrivateKey(pk) /\ k # "" /\ defaultKeyID \notin DOMAIN tokenKeys)
                => /\ a.err = "nil"
                   /\ defaultKeyID \in DOMAIN a.c.tokenKeys
                   /\ a.c.tokenKeys[defaultKeyID].kind
                        = (IF pk.kind = "*rsa.PrivateKey" THEN "*rsa.PublicKey"
                           ELSE "*ecdsa.PublicKey")
                   /\ a.c.tokenKeys[defaultKeyID].id = pk.id
           /\ (k # defaultKeyID /\ defaultKeyID \in DOMAIN tokenKeys)
                => /\ defaultKeyID \in DOMAIN a.c.tokenKeys
                   /\ a.c.tokenKeys[defaultKeyID] = tokenKeys[defaultKeyID]
                   /\ defaultKeyID \in DOMAIN b.c.tokenKeys
                   /\ b.c.tokenKeys[defaultKeyID] = tokenKeys[defaultKeyID]

C7_Witness ==
    /\ ret.op = "AddPublicKey" /\ ret.err = "nil"
    /\ defaultKeyID \in DOMAIN tokenKeys
    /\ \E k \in DOMAIN tokenKeys :
         /\ k # defaultKeyID
         /\ IsPublicKey(tokenKeys[k])
         /\ tokenKeys[k] # tokenKeys[defaultKeyID]

\* C8: LoadKeys on a registry that holds an entry returns success and leaves
\* the entries, the family tag and the origin unchanged, whatever the
\* resolvers would have produced and however often it is called.
C8_LoadKeysIdempotent ==
    [][(Populated /\ ret'.op = "LoadKeys") =>
         /\ ret'.err = "nil"
         /\ tokenKeys' = tokenKeys
         /\ tokenType' = tokenType
         /\ tokenOrigin' = tokenOrigin]_vars

C8_Witness ==
    /\ ret.op = "LoadKeys" /\ ret.err = "nil"
    /\ Populated
    /\ tokenType = ""
    /\ tokenOrigin # ""

\* C9: GetPrivateKey on a registry without a private key at a non-default kid
\* fails with ErrECDSAKeysNotFound when the stored entries are ECDSA keys and
\* with ErrRSAKeysNotFound when none of them is (an empty registry included).
C9_FamilyAppropriateNotFound ==
    (ret.op = "GetPrivateKey" /\ ~HasSigningKey) =>
        /\ ret.err \in {"ErrECDSAKeysNotFound", "ErrRSAKeysNotFound"}
        /\ (Populated /\ \A k \in DOMAIN tokenKeys : Family(tokenKeys[k]) = "ecdsa")
             => ret.err = "ErrECDSAKeysNotFound"
        /\ (\A k \in DOMAIN tokenKeys : Family(tokenKeys[k]) # "ecdsa")
             => ret.err = "ErrRSAKeysNotFound"

\* C10: GetPrivateKey succeeds exactly when a private key is stored at a kid
\* other than "0"; the (key, kid) it returns is such an entry of the
\* registry; the call changes no state.
C10_GetPrivateKey ==
    /\ [](ret.op = "GetPrivateKey" =>
            /\ (ret.err = "nil") <=> HasSigningKey
            /\ ret.err = "nil" =>
                 /\ ret.kid \in DOMAIN tokenKeys
                 /\ ret.kid # defaultKeyID
                 /\ tokenKeys[ret.kid] = ret.key
                 /\ ret.key.kind \in {"*rsa.PrivateKey", "*ecdsa.PrivateKey"})
    /\ [][ret'.op = "GetPrivateKey" => UNCHANGED fields]_vars

C10_Witness ==
    /\ ret.op = "GetPrivateKey" /\ ret.err = "nil"
    /\ defaultKeyID \in DOMAIN tokenKeys /\ IsPrivateKey(tokenKeys[defaultKeyID])
    /\ Cardinality({k \in DOMAIN tokenKeys :
                      k # defaultKeyID /\ IsPrivateKey(tokenKeys[k])}) >= 2

\* C11: SetOrigin succeeds exactly for "config" and "env", fails with
\* ErrEmptyTokenConfigOrigin for "empty" and with
\* ErrUnsupportedTokenConfigOrigin for every other name, and a failing call
\* leaves the value returned by GetOrigin unchanged.
C11_SetOriginValidation ==
    [][ret'.op = "SetOrigin" =>
         \A name \in OriginNames :
            CallSetOrigin(name) =>
              /\ ret'.err = (IF name \in {"config", "env"} THEN "nil"
                             ELSE IF name = "empty" THEN "ErrEmptyTokenConfigOrigin"
                             ELSE "ErrUnsupportedTokenConfigOrigin")
              /\ ret'.err # "nil" => Origin' = Origin]_vars

C11_Witness ==
    /\ ret.op = "SetOrigin" /\ ret.err = "ErrUnsupportedTokenConfigOrigin"
    /\ Origin = "unknown"

\* C12: GetOrigin returns "unknown" until a SetOrigin call succeeds, then the
\* name given to the most recent successful SetOrigin call, which is "config"
\* or "env"; no other call changes it.
C12_GetOriginLastWins ==
    /\ Origin = "unknown"
    /\ [][/\ Origin' \in {"config", "env", "unknown"}
          /\ (ret'.op = "SetOrigin" /\ ret'.err = "nil") =>
               /\ Origin' \in {"config", "env"}
               /\ \A name \in OriginNames : CallSetOrigin(name) => Origin' = name
          /\ ~(ret'.op = "SetOrigin" /\ ret'.err = "nil") => Origin' = Origin]_vars

C12_Witness ==
    /\ ret.op = "SetOrigin" /\ ret.err = "nil"
    /\ Origin = "env"
    /\ Populated

\* C13: a successful AddKey(k, v) leaves the registry mapping k to exactly v
\* and every other kid as it was before the call: present with the same
\* value, or absent.
C13_LastWriterWinsFrame ==
    \A k \in Kids, pk \in KeyValues :
        LET r == AddKey(Self, k, pk)
        IN r.err = "nil" =>
             /\ DOMAIN r.c.tokenKeys = DOMAIN tokenKeys \cup {k}
             /\ r.c.tokenKeys[k] = pk
             /\ \A other \in DOMAIN tokenKeys \ {k} :
                  r.c.tokenKeys[other] = tokenKeys[other]

C13_Witness ==
    /\ ret.op = "AddKey" /\ ret.err = "nil"
    /\ defaultKeyID \notin DOMAIN tokenKeys
    /\ Cardinality(DOMAIN tokenKeys) >= 2
    /\ \E a \in DOMAIN tokenKeys, b \in DOMAIN tokenKeys : tokenKeys[a] # tokenKeys[b]

\* C14: the classifier maps a string to "secret", an RSA private or public
\* key to "rsa", an ECDSA private or public key to "ecdsa" and any other value
\* to ErrUnsupportedConfigKeyType; a private key and its derived public key
\* classify alike; every stored entry classifies without error and the tag
\* a successful AddKey leaves is the family of a stored entry.
C14_ClassifierMapping ==
    /\ \A v \in KeyValues :
         getKeyType(v) =
           (IF v.kind = "string" THEN [kt |-> "secret", err |-> "nil"]
            ELSE IF v.kind \in {"*rsa.PrivateKey", "*rsa.PublicKey"}
                 THEN [kt |-> "rsa", err |-> "nil"]
            ELSE IF v.kind \in {"*ecdsa.PrivateKey", "*ecdsa.PublicKey"}
                 THEN [kt |-> "ecdsa", err |-> "nil"]
            ELSE [kt |-> "", err |-> "ErrUnsupportedConfigKeyType"])
    /\ \A v \in KeyValues :
         IsPrivateKey(v) =>
           /\ getKeyType(PublicKey(v)).err = "nil"
           /\ getKeyType(PublicKey(v)).kt = getKeyType(v).kt
    /\ \A k \in DOMAIN tokenKeys : getKeyType(tokenKeys[k]).err = "nil"
    /\ (ret.op = "AddKey" /\ ret.err = "nil") =>
         \E k \in DOMAIN tokenKeys :
            tokenType = (IF tokenKeys[k].kind = "string" THEN "secret"
                         ELSE IF tokenKeys[k].kind \in {"*rsa.PrivateKey", "*rsa.PublicKey"}
                              THEN "rsa" ELSE "ecdsa")

C14_Witness ==
    /\ ret.op = "AddKey" /\ ret.err = "nil"
    /\ tokenType = "ecdsa"
    /\ \E a \in DOMAIN tokenKeys, b \in DOMAIN tokenKeys :
         /\ tokenKeys[a].kind = "*ecdsa.PrivateKey"
         /\ tokenKeys[b] = PublicKey(tokenKeys[a])

\* C15: an AddKey or AddPublicKey call that returns an error leaves the
\* registry entries and the family tag as they were, and with them the
\* populated/empty decision of LoadKeys.
C15_FailedInsertNoEffect ==
    [][(ret'.op \in {"AddKey", "AddPublicKey"} /\ ret'.err # "nil") =>
         /\ tokenKeys' = tokenKeys
         /\ tokenType' = tokenType
         /\ Keys' = Keys
         /\ (Cardinality(DOMAIN tokenKeys') > 0) = (Cardinality(DOMAIN tokenKeys) > 0)]_vars

C15_Witness ==
    /\ ret.op = "AddKey" /\ ret.err = "ErrUnsupportedConfigKeyType"
    /\ Populated
    /\ tokenType # ""

\* C16: every value AddPublicKey stores is an RSA or ECDSA public key (a
\* private-key argument is replaced by its derived public key, a string or
\* other value is rejected with ErrUnsupportedKeyType and stores nothing), so
\* a registry populated through AddPublicKey only holds public keys only and
\* GetPrivateKey fails on it.
C16_PublicKeysOnly ==
    /\ \A k \in DOMAIN tokenKeys :
         tokenKeys[k].kind \in {"*rsa.PublicKey", "*ecdsa.PublicKey"}
    /\ ret.op = "GetPrivateKey" => ret.err # "nil"
    /\ \A k \in Kids \ {""}, v \in KeyValues :
         LET r == AddPublicKey(Self, k, v)
         IN CASE v.kind = "*rsa.PrivateKey" ->
                   /\ r.err = "nil"
                   /\ r.c.tokenKeys[k] = [kind |-> "*rsa.PublicKey", id |-> v.id]
              [] v.kind = "*ecdsa.PrivateKey" ->
                   /\ r.err = "nil"
                   /\ r.c.tokenKeys[k] = [kind |-> "*ecdsa.PublicKey", id |-> v.id]
              [] v.kind \in {"*rsa.PublicKey", "*ecdsa.PublicKey"} ->
                   r.err = "nil" /\ r.c.tokenKeys[k] = v
              [] OTHER ->
                   r.err = "ErrUnsupportedKeyType" /\ r.c.tokenKeys = tokenKeys

C16_Witness ==
    /\ ret.op = "GetPrivateKey" /\ ret.err = "ErrRSAKeysNotFound"
    /\ {defaultKeyID, "k1", "k2"} \subseteq DOMAIN tokenKeys
    /\ tokenKeys["k1"].kind = "*ecdsa.PublicKey"

\* C17: HasRSAKeys is true exactly when one of the five RSA sources is
\* configured (a non-empty string, a map that is not nil), HasECDSAKeys
\* likewise for the five ECDSA sources; the results are the same for every
\* content of the key registry, and neither call changes any field.
C17_HasKeysFromConfigOnly ==
    /\ [](/\ HasRSAKeys(Self) <=>
               (\/ \E f \in RSAStringFields : RSASignMethodConfig[f] # ""
                \/ \E f \in RSAMapFields : RSASignMethodConfig[f] # NilStringMap)
          /\ HasECDSAKeys(Self) <=>
               (\/ \E f \in ECDSAStringFields : ECDSASignMethodConfig[f] # ""
                \/ \E f \in ECDSAMapFields : ECDSASignMethodConfig[f] # NilStringMap)
          /\ \A k \in Kids, v \in SupportedValues :
               LET other == [Self EXCEPT !.tokenKeys = Put(tokenKeys, k, v),
                                         !.tokenKeysNil = FALSE,
                                         !.tokenType = getKeyType(v).kt]
               IN /\ HasRSAKeys(other) = HasRSAKeys(Self)
                  /\ HasECDSAKeys(other) = HasECDSAKeys(Self)
          /\ ret.op = "HasRSAKeys" => ret.ok = HasRSAKeys(Self)
          /\ ret.op = "HasECDSAKeys" => ret.ok = HasECDSAKeys(Self))
    /\ [][ret'.op \in {"HasRSAKeys", "HasECDSAKeys"} => UNCHANGED fields]_vars

C17_Witness ==
    /\ ret.op = "HasRSAKeys" /\ ret.ok
    /\ \A f \in RSAStringFields : RSASignMethodConfig[f] = ""
    /\ RSASignMethodConfig.TokenRSAFiles = NilStringMap
    /\ RSASignMethodConfig.TokenRSAKeys = [isNil |-> FALSE, len |-> 0]
    /\ ECDSASignMethodConfig.TokenECDSADir # ""

====
